---------------------------- MODULE Spec2Model ----------------------------
(***************************************************************************)
(* A model of the data-processing notebooks of the Lipid Brain Atlas       *)
(* Explorer (LBAE): notebook 2 (peak annotation), notebook 3 (lipid        *)
(* selection exported as RGB tiff), notebook 4 (scRNAseq export: affine    *)
(* alignment, nearest-neighbour lookup, regression, shelved objects) and   *)
(* notebook 5 (sample copies of the registration files).                   *)
(*                                                                         *)
(* Each notebook step is one group of variables with its own initial       *)
(* condition, actions and specification.  The variables of the other       *)
(* groups stay at their idle value while one group runs.                   *)
(*                                                                         *)
(* Conventions.  Python lists and arrays are TLA+ sequences; a Python      *)
(* position p (0-based) is position p + 1 here, except where a function    *)
(* over 0..n-1 is used and said so.  m/z values are integers in units of   *)
(* 0.001.  A float is an integer or an exact rational <<num, den>>.        *)
(***************************************************************************)
EXTENDS Integers, Sequences, FiniteSets, TLC

VARIABLES
    \* notebook 2, annotation export
    lipid_list, l_t_names, t_pos, df, row_pos, df_with_lipid_boundaries, pc_annot,
    \* notebook 4, find_index_coordinate
    x_mol, y_mol, z_mol, array_x, array_y, array_z, array_c, idx_mol,
    array_expression, pc_nn,
    \* notebook 4, affine alignment of the molecular atlas
    table_meta, table_meta_read, todo_acronyms, l_x, l_y, l_z, l_xs, l_ys, l_zs,
    M, y_fit, abcd, pc_fit,
    \* the shelve database of the Storage class
    shelf, n_computed, n_fetched, last_fetch, root_data,
    \* notebook 4, compute_regression_all_lipids
    array_exp_lipids, l_lipid_indices, l_res, ll_coef, l_score, pc_regr,
    \* notebook 3, keep only most prevalent lipids
    df_annotation, df_annotation_read, l_most_prevalent_lipids, pc_prev,
    \* notebook 3, lipid images and RGB tiff export
    dic_l_images, tic_overview, ll_index_to_keep, tiff_files, pc_tiff,
    \* notebook 5, copy of the original slice images
    input_dir, output_dir, n_written, n_slices, i_copy, pc_copy,
    \* notebook 5, downsampled warped data and coordinates
    shape_coordinates, shape_warped, printed, saved_coordinates, saved_warped, pc_warp,
    \* notebook 2, file names of a brain and duplicate correction
    listing, l_names, zipped, idx_dup, pc_dup,
    \* notebook 4, spots of table_meta and table_exp_genes
    meta_index, exp_genes_index, l_spots, mol_spots, array_exp_genes_spots, pc_both,
    \* notebook 4, filter_genes
    array_coef, l_to_keep, idx_gene, filtered, pc_genes,
    \* notebook 4, compute_array_exp_lipids
    method, n_brain_slices, idx_triple, l_selected_lipids, annotated, l_name_lipids, ll_exp_lipids, interpolated_array, pc_explip

varsAnnot == <<lipid_list, l_t_names, t_pos, df, row_pos,
               df_with_lipid_boundaries, pc_annot>>

varsNN == <<x_mol, y_mol, z_mol, array_x, array_y, array_z, array_c, idx_mol,
            array_expression, pc_nn>>

varsFit == <<table_meta, table_meta_read, todo_acronyms, l_x, l_y, l_z,
             l_xs, l_ys, l_zs, M, y_fit, abcd, pc_fit>>

varsShelf == <<shelf, n_computed, n_fetched, last_fetch, root_data>>

varsRegr == <<array_exp_lipids, l_lipid_indices, l_res, ll_coef, l_score, pc_regr>>

varsPrev == <<df_annotation, df_annotation_read, l_most_prevalent_lipids, pc_prev>>

varsTiff == <<dic_l_images, tic_overview, ll_index_to_keep, tiff_files, pc_tiff>>

varsCopy == <<input_dir, output_dir, n_written, n_slices, i_copy, pc_copy>>

varsWarp == <<shape_coordinates, shape_warped, printed, saved_coordinates, saved_warped, pc_warp>>

varsDup == <<listing, l_names, zipped, idx_dup, pc_dup>>

varsBoth == <<meta_index, exp_genes_index, l_spots, mol_spots, array_exp_genes_spots, pc_both>>

varsGenes == <<array_coef, l_to_keep, idx_gene, filtered, pc_genes>>

varsExpLip == <<method, n_brain_slices, idx_triple, l_selected_lipids, annotated, l_name_lipids, ll_exp_lipids, interpolated_array, pc_explip>>

vars == <<varsAnnot, varsNN, varsFit, varsShelf, varsRegr, varsPrev,
          varsTiff, varsCopy, varsWarp,
         varsDup,
         varsBoth,
         varsGenes,
         varsExpLip>>

\* What each notebook step leaves alone
othersAnnot == <<varsNN, varsFit, varsShelf, varsRegr, varsPrev, varsTiff,
                 varsCopy, varsWarp,
    varsDup,
    varsBoth,
    varsGenes,
    varsExpLip>>
othersNN == <<varsAnnot, varsFit, varsShelf, varsRegr, varsPrev, varsTiff,
              varsCopy, varsWarp,
    varsDup,
    varsBoth,
    varsGenes,
    varsExpLip>>
othersFit == <<varsAnnot, varsNN, varsShelf, varsRegr, varsPrev, varsTiff,
               varsCopy, varsWarp,
    varsDup,
    varsBoth,
    varsGenes,
    varsExpLip>>
othersShelf == <<varsAnnot, varsNN, varsFit, varsRegr, varsPrev, varsTiff,
                 varsCopy, varsWarp,
    varsDup,
    varsBoth,
    varsGenes,
    varsExpLip>>
othersRegr == <<varsAnnot, varsNN, varsFit, varsShelf, varsPrev, varsTiff,
                varsCopy, varsWarp,
    varsDup,
    varsBoth,
    varsGenes,
    varsExpLip>>
othersPrev == <<varsAnnot, varsNN, varsFit, varsShelf, varsRegr, varsTiff,
                varsCopy, varsWarp,
    varsDup,
    varsBoth,
    varsGenes,
    varsExpLip>>
othersTiff == <<varsAnnot, varsNN, varsFit, varsShelf, varsRegr, varsPrev,
                varsCopy, varsWarp,
    varsDup,
    varsBoth,
    varsGenes,
    varsExpLip>>
othersCopy == <<varsAnnot, varsNN, varsFit, varsShelf, varsRegr, varsPrev,
                varsTiff, varsWarp,
    varsDup,
    varsBoth,
    varsGenes,
    varsExpLip>>
othersWarp == <<varsAnnot, varsNN, varsFit, varsShelf, varsRegr, varsPrev,
                varsTiff, varsCopy,
    varsDup,
    varsBoth,
    varsGenes,
    varsExpLip>>
othersDup == <<varsAnnot, varsNN, varsFit, varsShelf, varsRegr, varsPrev, varsTiff, varsCopy, varsWarp,
    varsBoth,
    varsGenes,
    varsExpLip>>
othersBoth == <<varsAnnot, varsNN, varsFit, varsShelf, varsRegr, varsPrev, varsTiff, varsCopy, varsWarp, varsDup,
    varsGenes,
    varsExpLip>>
othersGenes == <<varsAnnot, varsNN, varsFit, varsShelf, varsRegr, varsPrev, varsTiff, varsCopy, varsWarp, varsDup, varsBoth,
    varsExpLip>>
othersExpLip == <<varsAnnot, varsNN, varsFit, varsShelf, varsRegr, varsPrev, varsTiff, varsCopy, varsWarp, varsDup, varsBoth, varsGenes>>

(***************************************************************************)
(* General helpers                                                         *)
(***************************************************************************)
Abs(n) == IF n < 0 THEN -n ELSE n

\* All sequences over S of length lo..hi
SeqsOf(S, lo, hi) == UNION {[1..n -> S] : n \in lo..hi}

\* np.argmin: the first position holding the minimum of a non-empty sequence
ArgMin(s) ==
    CHOOSE i \in 1..Len(s) :
        /\ \A j \in 1..Len(s) : s[i] <= s[j]
        /\ \A j \in 1..(i - 1) : s[j] > s[i]

\* The sum of f[1..n]
RECURSIVE SumFn(_, _)
SumFn(f, n) == IF n = 0 THEN 0 ELSE f[n] + SumFn(f, n - 1)

\* Exact rationals <<num, den>> with den > 0, in lowest terms
RECURSIVE GCD(_, _)
GCD(m, n) == IF n = 0 THEN m ELSE GCD(n, m % n)

Rat(n, d) ==
    LET g == GCD(Abs(n), Abs(d))
        sgn == IF d < 0 THEN -1 ELSE 1
    IN  <<sgn * (n \div g), sgn * (d \div g)>>

RInt(n) == <<n, 1>>
RAdd(p, q) == Rat(p[1] * q[2] + q[1] * p[2], p[2] * q[2])
RSub(p, q) == Rat(p[1] * q[2] - q[1] * p[2], p[2] * q[2])
RMul(p, q) == Rat(p[1] * q[1], p[2] * q[2])
RDiv(p, q) == Rat(p[1] * q[2], p[2] * q[1])

\* The sum of the rationals f[1..n]
RECURSIVE RSumFn(_, _)
RSumFn(f, n) == IF n = 0 THEN RInt(0) ELSE RAdd(f[n], RSumFn(f, n - 1))

(***************************************************************************)
(* Notebook 2: compute and export the annotations                          *)
(***************************************************************************)
\* Bounds of the annotation model
MaxLipids == 2
MaxPeaks == 1
\* m/z values of the model, in units of 0.001
MzValues == 0..4
\* The merged list of slice indices (brain_1, then brain_2 shifted by 22)
SliceNames == <<1, 23>>

\* Peak distance threshold for annotation: 0.003, in units of 0.001
THRESH == 3

\* np.abs(lipid_list.iloc[:, 3] - mz_estimated)
MzDistances(lipids, mz_estimated) ==
    [i \in 1..Len(lipids) |-> Abs(lipids[i] - mz_estimated)]

\* idx = np.argmin(np.abs(lipid_list.iloc[:, 3] - row.mz_estimated))
ClosestLipid(lipids, mz_estimated) == ArgMin(MzDistances(lipids, mz_estimated))

WithinThreshInclusive(mz_estimated, mz_hit) == Abs(mz_estimated - mz_hit) <= THRESH

\* if abs(row.mz_estimated - mz_hit.iloc[3]) < THRESH
WithinThresh(mz_estimated, mz_hit) == Abs(mz_estimated - mz_hit) < THRESH

InitAnnot ==
    /\ lipid_list \in SeqsOf(MzValues, 1, MaxLipids)
    /\ l_t_names = SliceNames
    /\ t_pos = 0
    /\ df = <<>>
    /\ row_pos = 0
    /\ df_with_lipid_boundaries = <<>>
    /\ pc_annot = "loop"

IdleAnnot ==
    /\ lipid_list = <<>>
    /\ l_t_names = <<>>
    /\ t_pos = 0
    /\ df = <<>>
    /\ row_pos = 0
    /\ df_with_lipid_boundaries = <<>>
    /\ pc_annot = "idle"

\* for t_names in l_t_names: df = maldi_conversion.load_peak_file(name)
\* The peak file of the slice is an input: a table of estimated m/z values.
LoadPeakFile ==
    /\ pc_annot = "loop"
    /\ row_pos = Len(df)
    /\ t_pos < Len(l_t_names)
    /\ \E peaks \in SeqsOf(MzValues, 0, MaxPeaks) :
          df' = peaks
    /\ t_pos' = t_pos + 1
    /\ row_pos' = 0
    /\ UNCHANGED <<lipid_list, l_t_names, df_with_lipid_boundaries, pc_annot>>
    /\ UNCHANGED othersAnnot

\* for name, row in df.iterrows(): one peak of the current slice
AnnotateRow ==
    /\ pc_annot = "loop"
    /\ row_pos < Len(df)
    /\ LET name == row_pos + 1
           mz_estimated == df[name]
           idx == ClosestLipid(lipid_list, mz_estimated)
           mz_hit == lipid_list[idx]
           df_row == [slice |-> l_t_names[t_pos], name |-> name,
                      mz_estimated |-> mz_estimated,
                      lipid |-> idx, theoretical |-> mz_hit]
       IN  /\ row_pos' = name
           /\ df_with_lipid_boundaries' =
                 IF WithinThresh(mz_estimated, mz_hit)
                 THEN Append(df_with_lipid_boundaries, df_row)
                 ELSE df_with_lipid_boundaries
    /\ UNCHANGED <<lipid_list, l_t_names, t_pos, df, pc_annot>>
    /\ UNCHANGED othersAnnot

\* df_with_lipid_boundaries.to_csv(...)
ExportAnnotations ==
    /\ pc_annot = "loop"
    /\ t_pos = Len(l_t_names)
    /\ row_pos = Len(df)
    /\ pc_annot' = "exported"
    /\ UNCHANGED <<lipid_list, l_t_names, t_pos, df, row_pos,
                   df_with_lipid_boundaries>>
    /\ UNCHANGED othersAnnot

NextAnnot == LoadPeakFile \/ AnnotateRow \/ ExportAnnotations

\* The rows of the export that belong to peak `name` of slice `s`
RowsOfPeak(s, name) ==
    {k \in 1..Len(df_with_lipid_boundaries) :
        /\ df_with_lipid_boundaries[k].slice = s
        /\ df_with_lipid_boundaries[k].name = name}

\* C1: every peak of the current slice that the loop has passed has a row
\* in the export iff some reference lipid lies strictly less than THRESH
\* away from its estimated m/z; it then has exactly one row, carrying the
\* lipid at minimum distance (the first such lipid of the list on ties); a
\* peak at distance THRESH or more from every lipid has no row.
C1_AnnotationIffWithinThreshold ==
    \A name \in 1..row_pos :
        LET mz == df[name]
            rows == RowsOfPeak(l_t_names[t_pos], name)
            near == {i \in 1..Len(lipid_list) : Abs(lipid_list[i] - mz) < THRESH}
        IN  /\ (rows # {}) <=> (near # {})
            /\ Cardinality(rows) <= 1
            /\ \A k \in rows :
                  LET i == df_with_lipid_boundaries[k].lipid
                  IN  /\ \A j \in 1..Len(lipid_list) :
                            Abs(lipid_list[i] - mz) <= Abs(lipid_list[j] - mz)
                      /\ \A j \in 1..(i - 1) :
                            Abs(lipid_list[j] - mz) > Abs(lipid_list[i] - mz)
                      /\ df_with_lipid_boundaries[k].mz_estimated = mz
                      /\ df_with_lipid_boundaries[k].theoretical = lipid_list[i]
            /\ (\A i \in 1..Len(lipid_list) : Abs(lipid_list[i] - mz) >= THRESH)
                  => rows = {}

\* C1 witness: the export is written, it holds a row whose lipid won a tie
\* against a later lipid of the list, and the last peak, at distance exactly THRESH from
\* its closest lipid, produced no row.
C1_Witness ==
    /\ pc_annot = "exported"
    /\ row_pos > 0
    /\ RowsOfPeak(l_t_names[t_pos], row_pos) = {}
    /\ \E i \in 1..Len(lipid_list) : Abs(lipid_list[i] - df[row_pos]) = THRESH
    /\ \E k \in 1..Len(df_with_lipid_boundaries) :
          LET r == df_with_lipid_boundaries[k]
          IN  \E j \in (r.lipid + 1)..Len(lipid_list) :
                 Abs(lipid_list[j] - r.mz_estimated)
                       = Abs(lipid_list[r.lipid] - r.mz_estimated)

(***************************************************************************)
(* Notebook 4: find_index_coordinate (nearest reference point of a spot)   *)
(***************************************************************************)
\* Bounds of the nearest-neighbour model
MaxRefPoints == 2
MaxSpots == 2
\* Coordinates of the model (the same unit for spots and reference points)
CoordX == {0, 1, 1000, 2001}
CoordY == {0, 1}
CoordZ == {0}
\* Expression values held by array_c
ExprValues == {7, 255}

\* min_dist = 1000000
MIN_DIST_START == 1000000

\* array_expression = np.zeros(..., dtype = np.uint8): a store keeps 8 bits
ToUint8(v) == v % 256

\* arr[i] for a Python index i (0-based, negative counts from the end)
PyGet(arr, i) == IF i < 0 THEN arr[Len(arr) + i + 1] ELSE arr[i + 1]

\* dist = (x-xt)**2 + (y-yt)**2 + (z-zt)**2
SqDist(x, y, z, xt, yt, zt) ==
    (x - xt) * (x - xt) + (y - yt) * (y - yt) + (z - zt) * (z - zt)

\* The inner loop of find_index_coordinate from reference point idx (0-based)
\* on, with the running min_dist and min_idx; the final min_idx.
RECURSIVE ScanReference(_, _, _, _, _, _, _, _, _)
ScanReference(x, y, z, ax, ay, az, idx, min_dist, min_idx) ==
    IF idx >= Len(ax) \/ idx >= Len(ay) \/ idx >= Len(az)
    THEN min_idx
    ELSE LET dist == SqDist(x, y, z, ax[idx + 1], ay[idx + 1], az[idx + 1])
         IN  IF dist < min_dist
             THEN ScanReference(x, y, z, ax, ay, az, idx + 1, dist, idx)
             ELSE ScanReference(x, y, z, ax, ay, az, idx + 1, min_dist, min_idx)

\* min_idx = -1; min_dist = 1000000; idx = 0; for xt, yt, zt in zip(...)
MinIdx(x, y, z, ax, ay, az) ==
    ScanReference(x, y, z, ax, ay, az, 0, MIN_DIST_START, -1)

InitNN ==
    /\ \E n \in 1..MaxSpots :
          /\ x_mol \in [1..n -> CoordX]
          /\ y_mol \in [1..n -> CoordY]
          /\ z_mol \in [1..n -> CoordZ]
    /\ \E m \in 1..MaxRefPoints :
          /\ array_x \in [1..m -> CoordX]
          /\ array_y \in [1..m -> CoordY]
          /\ array_z \in [1..m -> CoordZ]
          /\ array_c \in [1..m -> ExprValues]
    /\ idx_mol = 0
    /\ array_expression = <<>>
    /\ pc_nn = "call"

IdleNN ==
    /\ x_mol = <<>> /\ y_mol = <<>> /\ z_mol = <<>>
    /\ array_x = <<>> /\ array_y = <<>> /\ array_z = <<>> /\ array_c = <<>>
    /\ idx_mol = 0
    /\ array_expression = <<>>
    /\ pc_nn = "idle"

\* array_expression = np.zeros((len(x_mol),), dtype = np.uint8); idx_mol = 0
EnterFindIndexCoordinate ==
    /\ pc_nn = "call"
    /\ array_expression' = [i \in 1..Len(x_mol) |-> 0]
    /\ idx_mol' = 0
    /\ pc_nn' = "loop"
    /\ UNCHANGED <<x_mol, y_mol, z_mol, array_x, array_y, array_z, array_c>>
    /\ UNCHANGED othersNN

\* One turn of: for x, y, z in zip(x_mol, y_mol, z_mol)
FindSpot ==
    /\ pc_nn = "loop"
    /\ idx_mol < Len(x_mol)
    /\ LET min_idx == MinIdx(x_mol[idx_mol + 1], y_mol[idx_mol + 1],
                             z_mol[idx_mol + 1], array_x, array_y, array_z)
       IN  array_expression' =
              [array_expression EXCEPT
                  ![idx_mol + 1] = ToUint8(PyGet(array_c, min_idx))]
    /\ idx_mol' = idx_mol + 1
    /\ UNCHANGED <<x_mol, y_mol, z_mol, array_x, array_y, array_z, array_c, pc_nn>>
    /\ UNCHANGED othersNN

\* return array_expression
ReturnFindIndexCoordinate ==
    /\ pc_nn = "loop"
    /\ idx_mol = Len(x_mol)
    /\ pc_nn' = "done"
    /\ UNCHANGED <<x_mol, y_mol, z_mol, array_x, array_y, array_z, array_c,
                   idx_mol, array_expression>>
    /\ UNCHANGED othersNN

NextNN == EnterFindIndexCoordinate \/ FindSpot \/ ReturnFindIndexCoordinate

\* The squared distance of spot i to reference point j (1-based positions)
RefSqDist(i, j) ==
    SqDist(x_mol[i], y_mol[i], z_mol[i], array_x[j], array_y[j], array_z[j])

\* The lowest reference point at minimal distance of spot i
NearestRef(i) ==
    CHOOSE j \in 1..Len(array_x) :
        /\ \A k \in 1..Len(array_x) : RefSqDist(i, j) <= RefSqDist(i, k)
        /\ \A k \in 1..(j - 1) : RefSqDist(i, k) > RefSqDist(i, j)

\* C2 (as claimed): once find_index_coordinate has returned, the entry of
\* every spot is the expression value array_c[j] of the lowest reference
\* point j at minimal Euclidean distance of the spot.
C2_NearestNeighbourLookup ==
    pc_nn = "done" =>
        \A i \in 1..Len(x_mol) : array_expression[i] = array_c[NearestRef(i)]

(***************************************************************************)
(* Notebook 4: linear regression structure-wise to get the coordinates of  *)
(* the molecular atlas in the ccfv3, and the conversion of table_meta      *)
(***************************************************************************)
\* Bound of the alignment model: the rows (spots) of table_meta
MaxMetaRows == 2
\* Stereotaxic coordinates of the spots, and the structures they lie in
StereoAP == {0, 1}
StereoDV == {0, 1}
StereoML == {1}
Acronyms == {"CA1", "TH"}
\* Mean atlas coordinate of a structure on each axis (np.mean(array_coor)*25/1000)
AtlasXs == {1, 3}
AtlasYs == {0, 2}
AtlasZs == {2}

\* counts[counts == 1].index: the structures that hold exactly one spot
SingleSpotAcronyms(table) ==
    {acr \in Acronyms :
        Cardinality({i \in 1..Len(table) : table[i].ABA_acronym = acr}) = 1}

\* table_meta[table_meta['ABA_acronym'] == acronym].iloc[0, 0:3]
SpotOf(table, acr) ==
    table[CHOOSE i \in 1..Len(table) :
             /\ table[i].ABA_acronym = acr
             /\ \A j \in 1..(i - 1) : table[j].ABA_acronym # acr]

\* X = np.vstack([np.array(l_x), ones, zeros, zeros]).T
DesignX(lx) == [i \in 1..Len(lx) |-> <<lx[i], 1, 0, 0>>]
\* Y = np.vstack([np.array(l_y), zeros, ones, zeros]).T
DesignY(ly) == [i \in 1..Len(ly) |-> <<ly[i], 0, 1, 0>>]
\* Z = np.vstack([np.array(l_z), zeros, zeros, ones]).T
DesignZ(lz) == [i \in 1..Len(lz) |-> <<lz[i], 0, 0, 1>>]
\* M = np.vstack((X, Y, Z))
DesignM(lx, ly, lz) == DesignX(lx) \o DesignY(ly) \o DesignZ(lz)

\* np.linalg.lstsq(M, y, rcond=None)[0], in exact arithmetic: the solution of
\* the normal equations (M^T M) v = M^T y, and the one of minimum norm when
\* M^T M is singular.
NormalMatrix(mat) ==
    [i \in 1..4 |-> [j \in 1..4 |->
        SumFn([r \in 1..Len(mat) |-> mat[r][i] * mat[r][j]], Len(mat))]]

NormalRhs(mat, obs) ==
    [i \in 1..4 |-> SumFn([r \in 1..Len(mat) |-> mat[r][i] * obs[r]], Len(mat))]

\* A square matrix without its first row and without column c
Minor(A, c) ==
    [i \in 1..(Len(A) - 1) |->
        [j \in 1..(Len(A) - 1) |-> A[i + 1][IF j < c THEN j ELSE j + 1]]]

RECURSIVE Det(_)
Det(A) ==
    IF Len(A) = 1 THEN A[1][1]
    ELSE SumFn([c \in 1..Len(A) |->
                  (IF c % 2 = 1 THEN 1 ELSE -1) * A[1][c] * Det(Minor(A, c))],
               Len(A))

\* Cramer's rule: N with column c replaced by the right-hand side
WithColumn(N, c, rhs) ==
    [i \in 1..Len(N) |-> [j \in 1..Len(N) |-> IF j = c THEN rhs[i] ELSE N[i][j]]]

LstsqFullRank(mat, obs) ==
    LET N == NormalMatrix(mat)
        rhs == NormalRhs(mat, obs)
    IN  [c \in 1..4 |-> Rat(Det(WithColumn(N, c, rhs)), Det(N))]

\* The rows of the design matrix that carry indicator column c (2, 3 or 4)
GroupRows(mat, c) == {r \in 1..Len(mat) : mat[r][c] = 1}

\* The mean of f over the rows R (R non-empty)
GroupMean(R, f, n) ==
    Rat(SumFn([r \in 1..n |-> IF r \in R THEN f[r] ELSE 0], n), Cardinality(R))

\* The minimum-norm least-squares solution when M^T M is singular.  An
\* indicator column without rows gets offset 0.  When the coordinate column
\* is constant on every group, each offset is mean(obs) - a * mean(coord) on
\* its group, and a minimises a^2 + sum of the squared offsets.
LstsqMinNorm(mat, obs) ==
    LET n == Len(mat)
        coord == [r \in 1..n |-> mat[r][1]]
        full == {c \in 2..4 : GroupRows(mat, c) # {}}
        tbar == [c \in 2..4 |->
                    IF c \in full THEN GroupMean(GroupRows(mat, c), coord, n)
                    ELSE RInt(0)]
        ubar == [c \in 2..4 |->
                    IF c \in full THEN GroupMean(GroupRows(mat, c), obs, n)
                    ELSE RInt(0)]
        \* pooled centred sums, times the group sizes to stay in integers
        stt == RSumFn([k \in 1..3 |->
                  RSumFn([r \in 1..n |->
                     IF r \in GroupRows(mat, k + 1)
                     THEN RMul(RSub(RInt(coord[r]), tbar[k + 1]),
                               RSub(RInt(coord[r]), tbar[k + 1]))
                     ELSE RInt(0)], n)], 3)
        stu == RSumFn([k \in 1..3 |->
                  RSumFn([r \in 1..n |->
                     IF r \in GroupRows(mat, k + 1)
                     THEN RMul(RSub(RInt(coord[r]), tbar[k + 1]),
                               RSub(RInt(obs[r]), ubar[k + 1]))
                     ELSE RInt(0)], n)], 3)
        a == IF stt[1] # 0
             THEN RDiv(stu, stt)
             ELSE RDiv(RSumFn([k \in 1..3 |-> RMul(tbar[k + 1], ubar[k + 1])], 3),
                       RAdd(RInt(1),
                            RSumFn([k \in 1..3 |-> RMul(tbar[k + 1], tbar[k + 1])], 3)))
    IN  [c \in 1..4 |->
            IF c = 1 THEN a
            ELSE IF c \in full THEN RSub(ubar[c], RMul(a, tbar[c]))
            ELSE RInt(0)]

Lstsq(mat, obs) ==
    IF Det(NormalMatrix(mat)) # 0
    THEN LstsqFullRank(mat, obs)
    ELSE LstsqMinNorm(mat, obs)

OffsetUnknownSwapped(axis) ==
    CASE axis = "stereo_AP" -> 2
      [] axis = "stereo_DV" -> 4
      [] axis = "stereo_ML" -> 3

\* The unknown added to each axis by the conversion (a, b, c, d = 1, 2, 3, 4):
\* stereo_AP gets b, stereo_DV gets c, stereo_ML gets d
OffsetUnknown(axis) ==
    CASE axis = "stereo_AP" -> 2
      [] axis = "stereo_DV" -> 3
      [] axis = "stereo_ML" -> 4

\* table_meta[axis] = a * table_meta[axis] + offset
ConvertAxis(sol, axis, v) == RAdd(RMul(sol[1], RInt(v)), sol[OffsetUnknown(axis)])

InitFit ==
    /\ table_meta \in
          SeqsOf([stereo_AP : StereoAP, stereo_DV : StereoDV, stereo_ML : StereoML,
                  ABA_acronym : Acronyms], 1, MaxMetaRows)
    /\ table_meta_read = table_meta
    /\ todo_acronyms = SingleSpotAcronyms(table_meta)
    /\ l_x = <<>> /\ l_y = <<>> /\ l_z = <<>>
    /\ l_xs = <<>> /\ l_ys = <<>> /\ l_zs = <<>>
    /\ M = <<>>
    /\ y_fit = <<>>
    /\ abcd = <<>>
    /\ pc_fit = "loop"

IdleFit ==
    /\ table_meta = <<>>
    /\ table_meta_read = <<>>
    /\ todo_acronyms = {}
    /\ l_x = <<>> /\ l_y = <<>> /\ l_z = <<>>
    /\ l_xs = <<>> /\ l_ys = <<>> /\ l_zs = <<>>
    /\ M = <<>>
    /\ y_fit = <<>>
    /\ abcd = <<>>
    /\ pc_fit = "idle"

\* One turn of: for acronym in counts[counts == 1].index.to_list().  The atlas
\* lookup is an input: it raises (the structure is unknown), or gives the mean
\* coordinates xs, ys, zs and whether each standard deviation is below 0.12.
AddStructure ==
    /\ pc_fit = "loop"
    /\ \E acronym \in todo_acronyms :
          /\ todo_acronyms' = todo_acronyms \ {acronym}
          /\ \E raised \in BOOLEAN, xs \in AtlasXs, ys \in AtlasYs, zs \in AtlasZs,
                tight_x \in BOOLEAN, tight_y \in BOOLEAN, tight_z \in BOOLEAN :
                LET spot == SpotOf(table_meta, acronym)
                IN  /\ l_x' = IF ~raised /\ tight_x
                              THEN Append(l_x, spot.stereo_AP) ELSE l_x
                    /\ l_xs' = IF ~raised /\ tight_x THEN Append(l_xs, xs) ELSE l_xs
                    /\ l_y' = IF ~raised /\ tight_y
                              THEN Append(l_y, spot.stereo_DV) ELSE l_y
                    /\ l_ys' = IF ~raised /\ tight_y THEN Append(l_ys, ys) ELSE l_ys
                    /\ l_z' = IF ~raised /\ tight_z
                              THEN Append(l_z, spot.stereo_ML) ELSE l_z
                    /\ l_zs' = IF ~raised /\ tight_z THEN Append(l_zs, zs) ELSE l_zs
    /\ UNCHANGED <<table_meta, table_meta_read, M, y_fit, abcd, pc_fit>>
    /\ UNCHANGED othersFit

\* M = np.vstack((X, Y, Z)); y = np.array(l_xs + l_ys + l_zs)
\* a, b, c, d = np.linalg.lstsq(M, y, rcond=None)[0]
FitLstsq ==
    /\ pc_fit = "loop"
    /\ todo_acronyms = {}
    /\ M' = DesignM(l_x, l_y, l_z)
    /\ y_fit' = l_xs \o l_ys \o l_zs
    /\ abcd' = Lstsq(M', y_fit')
    /\ pc_fit' = "fitted"
    /\ UNCHANGED <<table_meta, table_meta_read, todo_acronyms,
                   l_x, l_y, l_z, l_xs, l_ys, l_zs>>
    /\ UNCHANGED othersFit

\* Convert molecular atlas coordinates to our system of coordinates
ConvertTableMeta ==
    /\ pc_fit = "fitted"
    /\ table_meta' =
          [i \in 1..Len(table_meta) |->
              [stereo_AP |-> ConvertAxis(abcd, "stereo_AP", table_meta[i].stereo_AP),
               stereo_DV |-> ConvertAxis(abcd, "stereo_DV", table_meta[i].stereo_DV),
               stereo_ML |-> ConvertAxis(abcd, "stereo_ML", table_meta[i].stereo_ML),
               ABA_acronym |-> table_meta[i].ABA_acronym]]
    /\ pc_fit' = "converted"
    /\ UNCHANGED <<table_meta_read, todo_acronyms, l_x, l_y, l_z,
                   l_xs, l_ys, l_zs, M, y_fit, abcd>>
    /\ UNCHANGED othersFit

NextFit == AddStructure \/ FitLstsq \/ ConvertTableMeta

\* The rows of the design matrix built from the samples of an axis
AxisRows(axis) ==
    CASE axis = "stereo_AP" -> 1..Len(l_x)
      [] axis = "stereo_DV" -> (Len(l_x) + 1)..(Len(l_x) + Len(l_y))
      [] axis = "stereo_ML" -> (Len(l_x) + Len(l_y) + 1)..(Len(l_x) + Len(l_y) + Len(l_z))

\* Column c is the indicator of the rows R: it is 1 on them, the other two
\* indicator columns are 0 on them
IsIndicatorOf(c, R) ==
    \A r \in R : \A k \in 2..4 : M[r][k] = (IF k = c THEN 1 ELSE 0)

\* The residual M v - y of row r, an exact rational
Residual(r) ==
    RSub(RSumFn([k \in 1..4 |-> RMul(RInt(M[r][k]), abcd[k])], 4), RInt(y_fit[r]))

\* C3: the fit is one least-squares system in four unknowns (the residual of
\* a, b, c, d is orthogonal to every column of M), its first column holds the
\* sample coordinate of every row (one scale a for the three axes), and the
\* conversion maps every coordinate v of an axis to a * v + the unknown whose
\* indicator column is 1 on the rows of that axis' samples.
C3_AffineFitAndConversion ==
    pc_fit = "converted" =>
        /\ Len(abcd) = 4
        /\ Len(M) = Len(l_x) + Len(l_y) + Len(l_z)
        /\ Len(y_fit) = Len(M)
        /\ \A r \in 1..Len(M) : M[r][1] = (l_x \o l_y \o l_z)[r]
        /\ \A k \in 1..4 :
              RSumFn([r \in 1..Len(M) |-> RMul(RInt(M[r][k]), Residual(r))],
                     Len(M)) = RInt(0)
        /\ \A axis \in {"stereo_AP", "stereo_DV", "stereo_ML"} :
              \E c \in 2..4 :
                 /\ IsIndicatorOf(c, AxisRows(axis))
                 /\ \A i \in 1..Len(table_meta) :
                       table_meta[i][axis] =
                          RAdd(RMul(abcd[1], RInt(table_meta_read[i][axis])), abcd[c])

\* C3 witness: the table is converted after a fit with samples on the three
\* axes, a unique solution, a non-zero scale and three different offsets.
C3_Witness ==
    /\ pc_fit = "converted"
    /\ l_x # <<>> /\ l_y # <<>> /\ l_z # <<>>
    /\ Det(NormalMatrix(M)) # 0
    /\ abcd[1] # RInt(0)
    /\ abcd[2] # abcd[3] /\ abcd[3] # abcd[4] /\ abcd[2] # abcd[4]


(***************************************************************************)
(* The shelve database: Storage.return_shelved_object and its callers      *)
(***************************************************************************)
\* Bound of the storage model: the number of fetches
MaxFetches == 4

\* The object the notebook fetches: folder "figures/3D_page", "volume_root"
RootVolumeKey == <<"figures/3D_page", "volume_root">>
\* An object precomputed and shelved by the classes Atlas and Figures
PrecomputedKey == <<"atlas/atlas_objects", "precomputed">>
ShelfKeys == {RootVolumeKey, PrecomputedKey}

NotebookForceUpdateAlways == TRUE

\* force_update=False in the notebook's call
NotebookForceUpdate == FALSE

\* compute_function(): the object of the key, and which computation made it
Compute(key) == [object |-> key, run |-> n_computed[key] + 1]

\* return_shelved_object(data_folder, file_name, force_update, compute_function):
\* return the shelved object when the shelf holds one and no update is forced,
\* else run the compute function, shelve its result and return it.
ReturnShelvedObject(key, force_update, caller) ==
    /\ IF key \in DOMAIN shelf /\ ~force_update
       THEN /\ shelf' = shelf
            /\ n_computed' = n_computed
       ELSE /\ shelf' = [k \in DOMAIN shelf \cup {key} |->
                            IF k = key THEN Compute(key) ELSE shelf[k]]
            /\ n_computed' = [n_computed EXCEPT ![key] = @ + 1]
    /\ n_fetched' = [n_fetched EXCEPT ![key] = @ + 1]
    /\ last_fetch' = [key |-> key, force_update |-> force_update, caller |-> caller,
                      returned |-> shelf'[key]]

FetchCount == n_fetched[RootVolumeKey] + n_fetched[PrecomputedKey]

\* First launch: the shelve database does not exist
InitShelf ==
    /\ shelf = <<>>
    /\ n_computed = [k \in ShelfKeys |-> 0]
    /\ n_fetched = [k \in ShelfKeys |-> 0]
    /\ last_fetch = [key |-> <<>>, force_update |-> FALSE, caller |-> "none",
                     returned |-> <<>>]
    /\ root_data = <<>>

IdleShelf == InitShelf

\* root_data = figures._storage.return_shelved_object("figures/3D_page",
\*     "volume_root", force_update=False, compute_function=...)
NotebookFetchRootVolume ==
    /\ FetchCount < MaxFetches
    /\ ReturnShelvedObject(RootVolumeKey, NotebookForceUpdate, "notebook")
    /\ root_data' = last_fetch'.returned
    /\ UNCHANGED othersShelf

\* Atlas(data, storage, ...), Figures(data, storage, ...): the classes fetch
\* their objects through the same storage, some with a forced update
AppFetch ==
    /\ FetchCount < MaxFetches
    /\ \E key \in ShelfKeys, force_update \in BOOLEAN :
          ReturnShelvedObject(key, force_update, "app")
    /\ UNCHANGED root_data
    /\ UNCHANGED othersShelf

NextShelf == NotebookFetchRootVolume \/ AppFetch

MaxLipidCols == 3
NRegrSpots == 2
\* Lipid expression values
LipidExprValues == {0, 1}

\* The stop of the slice in list(range(array_exp_lipids.shape[1]))[:1]
REGRESSION_SLICE_STOP == 1

\* list(range(n)): the Python indices 0 .. n-1
PyRange(n) == [i \in 1..n |-> i - 1]

\* lst[:stop] for stop >= 0
PySliceTo(lst, stop) == SubSeq(lst, 1, IF stop < Len(lst) THEN stop ELSE Len(lst))

\* array_exp_lipids.shape[1]; the array is held as the sequence of its columns
NLipidCols(arr) == Len(arr)

\* array_exp_lipids[:, index_lipid]
LipidColumn(arr, index_lipid) == arr[index_lipid + 1]

\* compute_regression(index_lipid): the forest fitted on the genes and on
\* the column of the lipid; its feature importances and its score are known
\* by the column they were fitted on
RegressionResult(arr, index_lipid) ==
    <<[importances_fitted_on |-> LipidColumn(arr, index_lipid)],
      [score_fitted_on |-> LipidColumn(arr, index_lipid)]>>

InitRegr ==
    /\ \E n \in 1..MaxLipidCols :
          array_exp_lipids \in [1..n -> [1..NRegrSpots -> LipidExprValues]]
    /\ l_lipid_indices = <<>>
    /\ l_res = <<>>
    /\ ll_coef = <<>>
    /\ l_score = <<>>
    /\ pc_regr = "call"

IdleRegr ==
    /\ array_exp_lipids = <<>>
    /\ l_lipid_indices = <<>>
    /\ l_res = <<>>
    /\ ll_coef = <<>>
    /\ l_score = <<>>
    /\ pc_regr = "idle"

\* l_lipid_indices = list(range(array_exp_lipids.shape[1]))[:1]
ListLipidIndices ==
    /\ pc_regr = "call"
    /\ l_lipid_indices' =
          PySliceTo(PyRange(NLipidCols(array_exp_lipids)), REGRESSION_SLICE_STOP)
    /\ pc_regr' = "map"
    /\ UNCHANGED <<array_exp_lipids, l_res, ll_coef, l_score>>
    /\ UNCHANGED othersRegr

\* One turn of: l_res = [x for x in map(compute_regression, l_lipid_indices)].
\* The fit is the library's: it returns, or it raises (clf.forest is read, and
\* whether the regressor has that attribute is the library's matter).
ComputeRegression ==
    /\ pc_regr = "map"
    /\ Len(l_res) < Len(l_lipid_indices)
    /\ \E raised \in BOOLEAN :
          IF raised
          THEN /\ pc_regr' = "raised"
               /\ l_res' = l_res
          ELSE /\ pc_regr' = pc_regr
               /\ l_res' = Append(l_res,
                     RegressionResult(array_exp_lipids, l_lipid_indices[Len(l_res) + 1]))
    /\ UNCHANGED <<array_exp_lipids, l_lipid_indices, ll_coef, l_score>>
    /\ UNCHANGED othersRegr

\* for res in l_res: ll_coef.append(res[0]); l_score.append(res[1])
\* return np.array(ll_coef), l_score
StoreAndReturn ==
    /\ pc_regr = "map"
    /\ Len(l_res) = Len(l_lipid_indices)
    /\ ll_coef' = [k \in 1..Len(l_res) |-> l_res[k][1]]
    /\ l_score' = [k \in 1..Len(l_res) |-> l_res[k][2]]
    /\ pc_regr' = "returned"
    /\ UNCHANGED <<array_exp_lipids, l_lipid_indices, l_res>>
    /\ UNCHANGED othersRegr

NextRegr == ListLipidIndices \/ ComputeRegression \/ StoreAndReturn

\* C5 (as claimed): when compute_regression_all_lipids has returned, the
\* coefficient array has one row and the score list one entry for every lipid
\* column of array_exp_lipids, row and entry k being those of lipid column k.
C5_RegressionForAllLipids ==
    pc_regr = "returned" =>
        /\ Len(ll_coef) = NLipidCols(array_exp_lipids)
        /\ Len(l_score) = NLipidCols(array_exp_lipids)
        /\ \A k \in 1..NLipidCols(array_exp_lipids) :
              /\ ll_coef[k].importances_fitted_on = array_exp_lipids[k]
              /\ l_score[k].score_fitted_on = array_exp_lipids[k]


(***************************************************************************)
(* Notebook 3: keep only most prevalent lipids                             *)
(***************************************************************************)
\* Bounds of the prevalence model.  Lipids (full_name_lipid) are numbered:
\* 1..NVariedLipids have any number of rows up to MaxRowsPerSlice in each
\* slice, the NBulkLipids that follow have one row in every slice.
NVariedLipids == 3
NBulkLipids == 59
MaxRowsPerSlice == 1
\* The slices of lipid_annotation.csv
AnnotationSlices == {1, 2}

\* value_counts()[:60]
N_MOST_PREVALENT == 60

VariedLipids == 1..NVariedLipids
BulkLipids == (NVariedLipids + 1)..(NVariedLipids + NBulkLipids)
AllLipids == VariedLipids \cup BulkLipids

\* The sum of f over the finite set S
RECURSIVE SumOver(_, _)
SumOver(f, S) ==
    IF S = {} THEN 0
    ELSE LET x == CHOOSE x \in S : TRUE IN f[x] + SumOver(f, S \ {x})

\* The subsets of size k of a set of integers
RECURSIVE KSubsets(_, _)
KSubsets(S, k) ==
    IF k = 0 THEN {{}}
    ELSE UNION {{({x} \cup T) : T \in KSubsets({y \in S : y > x}, k - 1)} : x \in S}

\* df_annotation["full_name_lipid"].value_counts(): the number of rows of
\* each lipid that has a row.  The table is held as the number of rows of
\* each lipid in each slice.
ValueCounts(table) ==
    LET rows == [l \in AllLipids |-> SumOver(table[l], AnnotationSlices)]
    IN  [l \in {l \in AllLipids : rows[l] > 0} |-> rows[l]]

\* The index of value_counts()[:n]: the sets of n lipids (all of them when
\* there are fewer) that can come first in decreasing order of count, equal
\* counts being in no specified order.
MostPrevalentSets(counts, n) ==
    LET names == DOMAIN counts
    IN  IF Cardinality(names) <= n THEN {names}
        ELSE LET cut == CHOOSE c \in {counts[l] : l \in names} :
                           /\ Cardinality({l \in names : counts[l] > c}) < n
                           /\ Cardinality({l \in names : counts[l] >= c}) >= n
                 above == {l \in names : counts[l] > cut}
                 tied == {l \in names : counts[l] = cut}
                 n_dropped == Cardinality(tied) - (n - Cardinality(above))
             IN  {above \cup (tied \ D) : D \in KSubsets(tied, n_dropped)}

\* df_annotation[df_annotation["full_name_lipid"].isin(l_most_prevalent_lipids)]
KeepRowsOf(table, kept) ==
    [l \in AllLipids |->
        [sl \in AnnotationSlices |-> IF l \in kept THEN table[l][sl] ELSE 0]]

InitPrev ==
    /\ \E varied \in [VariedLipids -> [AnnotationSlices -> 0..MaxRowsPerSlice]] :
          df_annotation =
             [l \in AllLipids |->
                 IF l \in VariedLipids THEN varied[l]
                 ELSE [sl \in AnnotationSlices |-> 1]]
    /\ df_annotation_read = df_annotation
    /\ l_most_prevalent_lipids = {}
    /\ pc_prev = "read"

IdlePrev ==
    /\ df_annotation = <<>>
    /\ df_annotation_read = <<>>
    /\ l_most_prevalent_lipids = {}
    /\ pc_prev = "idle"

\* l_most_prevalent_lipids = list(...value_counts()[:60].index)
\* df_annotation = df_annotation[...isin(l_most_prevalent_lipids)]
KeepMostPrevalent ==
    /\ pc_prev = "read"
    /\ \E kept \in MostPrevalentSets(ValueCounts(df_annotation), N_MOST_PREVALENT) :
          /\ l_most_prevalent_lipids' = kept
          /\ df_annotation' = KeepRowsOf(df_annotation, kept)
    /\ pc_prev' = "filtered"
    /\ UNCHANGED df_annotation_read
    /\ UNCHANGED othersPrev

NextPrev == KeepMostPrevalent

\* A lipid has an annotation row in every slice of the table
InEverySlice(table, l) == \A sl \in AnnotationSlices : table[l][sl] > 0
HasRow(table, l) == \E sl \in AnnotationSlices : table[l][sl] > 0

\* C8 (as claimed): after the filter every lipid that remains in
\* df_annotation has an annotation row in every slice, and no lipid that had
\* a row in every slice has been removed.
C8_KeepsLipidsPresentInAllSlices ==
    pc_prev = "filtered" =>
        /\ \A l \in AllLipids :
              HasRow(df_annotation, l) => InEverySlice(df_annotation, l)
        /\ \A l \in AllLipids :
              InEverySlice(df_annotation_read, l) => HasRow(df_annotation, l)


(***************************************************************************)
(* Notebook 3: lipid images per slice, overview figure, RGB tiff export    *)
(***************************************************************************)
\* Bound of the tiff export model: annotation rows of one lipid in one slice
MaxRowsPerLipid == 1

\* data.get_slice_list(indices="brain_2"): the slices of the second brain
Brain2SliceList == <<23, 24>>

\* The positions of l_most_prevalent_lipids (0-based, as enumerate gives them)
LipidPositions == 0..(N_MOST_PREVALENT - 1)

\* The lipids that may have annotation rows in a slice of the model, and the
\* images compute_normalized_image_per_lipid may return for a row.  An image
\* is held flattened; its values are non-negative and not all zero.
AnnotatedCandidates == {0, 4, 23, 29}
RowImages == {<<1, 0>>, <<1, 2>>}

\* data.get_image_shape(slice_index), as a number of pixels
ImageShape == Len(CHOOSE im \in RowImages : TRUE)

\* A numpy value: ndim is len(value.shape), px the flattened values
Scalar(v) == [ndim |-> 0, px |-> <<v>>]
Array2D(px) == [ndim |-> 2, px |-> px]

\* np.sum(list, axis=0) and np.nansum(list, axis=0) of arrays of one shape:
\* the elementwise sum, and the scalar 0.0 for the empty list
RECURSIVE SumImages(_)
SumImages(l) ==
    IF l = <<>> THEN Scalar(0)
    ELSE IF Len(l) = 1 THEN l[1]
    ELSE LET rest == SumImages(Tail(l))
         IN  Array2D([p \in 1..Len(l[1].px) |-> l[1].px[p] + rest.px[p]])

\* im_lipid: the np.nansum of the images of the rows of one lipid
ImLipid(rows) == SumImages([r \in 1..Len(rows) |-> Array2D(rows[r])])

\* [image[0] for index_lipid, image in enumerate(l_images)
\*  if index_lipid in positions and len(image[0].shape) > 0], over positions
\* 0..n-1
RECURSIVE ImagesOf(_, _, _)
ImagesOf(l_images, positions, n) ==
    IF n = 0 THEN <<>>
    ELSE LET rest == ImagesOf(l_images, positions, n - 1)
         IN  IF (n - 1) \in positions /\ l_images[n - 1].ndim > 0
             THEN Append(rest, l_images[n - 1])
             ELSE rest

\* The elements of a Python list
ListSet(l) == {l[k] : k \in 1..Len(l)}

\* The float 0.0 / 0.0
NaN == <<0, 0>>

\* np.max of non-negative values
MaxOf(px) == CHOOSE m \in ListSet(px) : \A v \in ListSet(px) : v <= m

\* image_norm = image / np.max(image) * 255, as exact rationals
Normalise255(image) ==
    LET m == MaxOf(image.px)
    IN  [ndim |-> image.ndim,
         px |-> [p \in 1..Len(image.px) |->
                    IF m = 0 THEN NaN ELSE Rat(image.px[p] * 255, m)]]

\* np.sum([... if index_lipid in l_index_to_keep and ...], axis=0)
ChannelImage(l_images, l_index_to_keep) ==
    SumImages(ImagesOf(l_images, ListSet(l_index_to_keep), N_MOST_PREVALENT))

\* The next slice of a loop over the slice list that fills the dictionary d
NextSlice(d) == Brain2SliceList[Cardinality(DOMAIN d) + 1]
IsLastSlice(d) == Cardinality(DOMAIN d) + 1 = Len(Brain2SliceList)

\* d[key] = value
DictSet(d, key, value) ==
    [k \in DOMAIN d \cup {key} |-> IF k = key THEN value ELSE d[k]]

\* list(d.keys()): the keys in insertion order, which is the slice order
DictKeys(d) == SelectSeq(Brain2SliceList, LAMBDA s : s \in DOMAIN d)

InitTiff ==
    /\ dic_l_images = <<>>
    /\ tic_overview = <<>>
    /\ ll_index_to_keep = <<>>
    /\ tiff_files = <<>>
    /\ pc_tiff = "images"

IdleTiff ==
    /\ dic_l_images = <<>>
    /\ tic_overview = <<>>
    /\ ll_index_to_keep = <<>>
    /\ tiff_files = <<>>
    /\ pc_tiff = "idle"

\* One iteration of "for slice_index in data.get_slice_list(...)": the rows of
\* df_currentSlice and their images are read, l_images holds one entry per
\* most prevalent lipid
ComputeSliceImages ==
    /\ pc_tiff = "images"
    /\ \E rows \in [AnnotatedCandidates -> SeqsOf(RowImages, 0, MaxRowsPerLipid)] :
          dic_l_images' =
             DictSet(dic_l_images, NextSlice(dic_l_images),
                     [i \in LipidPositions |->
                         IF i \in AnnotatedCandidates THEN ImLipid(rows[i])
                         ELSE Scalar(0)])
    /\ pc_tiff' = IF IsLastSlice(dic_l_images) THEN "overview" ELSE "images"
    /\ UNCHANGED <<tic_overview, ll_index_to_keep, tiff_files>>
    /\ UNCHANGED othersTiff

\* The overview figure: the image shown as TIC in the first row, per slice
ShowOverview ==
    /\ pc_tiff = "overview"
    /\ tic_overview' =
          [s \in DOMAIN dic_l_images |->
              SumImages(ImagesOf(dic_l_images[s], LipidPositions, N_MOST_PREVALENT))]
    /\ pc_tiff' = "select"
    /\ UNCHANGED <<dic_l_images, ll_index_to_keep, tiff_files>>
    /\ UNCHANGED othersTiff

\* ll_index_to_keep = [[4, 9, 10, 14, 43], [29, 34, 12, 21, 24],
\*                     list(dic_l_images.keys())]
DefineIndexToKeep ==
    /\ pc_tiff = "select"
    /\ ll_index_to_keep' =
          << <<4, 9, 10, 14, 43>>, <<29, 34, 12, 21, 24>>, DictKeys(dic_l_images) >>
    /\ pc_tiff' = "export"
    /\ UNCHANGED <<dic_l_images, tic_overview, tiff_files>>
    /\ UNCHANGED othersTiff

\* One iteration of the export loop: image_tiff holds one normalised image
\* per lipid selection and is handed to to_tiff
ExportSliceTiff ==
    /\ pc_tiff = "export"
    /\ LET slice_index == NextSlice(tiff_files)
           image_tiff ==
              [j \in 1..Len(ll_index_to_keep) |->
                  Normalise255(ChannelImage(dic_l_images[slice_index],
                                            ll_index_to_keep[j]))]
       IN  tiff_files' = DictSet(tiff_files, slice_index, image_tiff)
    /\ pc_tiff' = IF IsLastSlice(tiff_files) THEN "done" ELSE "export"
    /\ UNCHANGED <<dic_l_images, tic_overview, ll_index_to_keep>>
    /\ UNCHANGED othersTiff

NextTiff ==
    \/ ComputeSliceImages
    \/ ShowOverview
    \/ DefineIndexToKeep
    \/ ExportSliceTiff

\* C6 (as claimed): the blue channel of every exported slice is the total ion
\* content of the slice, the image shown as TIC in the overview figure (the sum
\* of the images of all most prevalent lipids that have an image in the
\* slice), scaled to 255 as the export scales every channel.
C6_BlueChannelIsTIC ==
    \A s \in DOMAIN tiff_files :
        tiff_files[s][3] = Normalise255(tic_overview[s])

\* A float in [0, 255]
InByteRange(v) == v[2] > 0 /\ v[1] >= 0 /\ v[1] <= 255 * v[2]

\* C7 (as claimed): every exported tiff has exactly three channels, channel j
\* being built from selection j of ll_index_to_keep, and every channel is a
\* 2-D image of the slice's shape with values in [0, 255] and maximum 255.
C7_ThreeChannelsScaledTo255 ==
    \A s \in DOMAIN tiff_files :
        /\ Len(tiff_files[s]) = 3
        /\ \A j \in 1..Len(tiff_files[s]) :
              LET channel == tiff_files[s][j]
              IN  /\ channel = Normalise255(ChannelImage(dic_l_images[s],
                                                         ll_index_to_keep[j]))
                  /\ channel.ndim = 2
                  /\ Len(channel.px) = ImageShape
                  /\ \A p \in 1..Len(channel.px) : InByteRange(channel.px[p])
                  /\ \E p \in 1..Len(channel.px) : channel.px[p] = <<255, 1>>

(***************************************************************************)
(* Notebook 5: copy the original slice images for the sample app           *)
(***************************************************************************)
\* Bounds of the copy model: slice files are numbered 1..MaxSliceNumber and
\* an image has 1..MaxChannels channels
MaxSliceNumber == 3
MaxChannels == 4

\* The values of a channel (an image is held as one value per channel)
ChannelValues == {0, 255}
OriginalImages == SeqsOf(ChannelValues, 1, MaxChannels)

\* [x for x in os.listdir(path_input) if "slice_" in x]
ListSliceFiles(dir) == DOMAIN dir

\* np.array(io.imread(...), dtype=np.uint8)[:, :, 2]: Python index 2 of the
\* channel axis, an IndexError when the axis is shorter
HasIndex2(image) == Len(image) >= 3
SliceArray(image) == ToUint8(image[3])

InitCopy ==
    /\ \E numbers \in SUBSET (1..MaxSliceNumber) :
          input_dir \in [numbers -> OriginalImages]
    /\ output_dir = <<>>
    /\ n_written = [k \in 1..MaxSliceNumber |-> 0]
    /\ n_slices = 0
    /\ i_copy = 0
    /\ pc_copy = "start"

IdleCopy ==
    /\ input_dir = <<>>
    /\ output_dir = <<>>
    /\ n_written = <<>>
    /\ n_slices = 0
    /\ i_copy = 0
    /\ pc_copy = "idle"

\* n_slices = len([x for x in os.listdir(path_input) if "slice_" in x])
CountSlices ==
    /\ pc_copy = "start"
    /\ n_slices' = Cardinality(ListSliceFiles(input_dir))
    /\ pc_copy' = IF n_slices' = 0 THEN "done" ELSE "loop"
    /\ UNCHANGED <<input_dir, output_dir, n_written, i_copy>>
    /\ UNCHANGED othersCopy

\* One iteration of "for i in range(n_slices)": slice_{i+1}.tiff is read,
\* channel index 2 is written as slice_{i+1}.tiff in the sample directory
CopySlice ==
    /\ pc_copy = "loop"
    /\ (i_copy + 1) \in DOMAIN input_dir
    /\ HasIndex2(input_dir[i_copy + 1])
    /\ output_dir' = DictSet(output_dir, i_copy + 1, SliceArray(input_dir[i_copy + 1]))
    /\ n_written' = [n_written EXCEPT ![i_copy + 1] = @ + 1]
    /\ i_copy' = i_copy + 1
    /\ pc_copy' = IF i_copy' = n_slices THEN "done" ELSE "loop"
    /\ UNCHANGED <<input_dir, n_slices>>
    /\ UNCHANGED othersCopy

\* io.imread raises when slice_{i+1}.tiff does not exist
CopySliceFileNotFound ==
    /\ pc_copy = "loop"
    /\ (i_copy + 1) \notin DOMAIN input_dir
    /\ pc_copy' = "FileNotFoundError"
    /\ UNCHANGED <<input_dir, output_dir, n_written, n_slices, i_copy>>
    /\ UNCHANGED othersCopy

\* [:, :, 2] raises when the image has fewer than three channels
CopySliceIndexError ==
    /\ pc_copy = "loop"
    /\ (i_copy + 1) \in DOMAIN input_dir
    /\ ~HasIndex2(input_dir[i_copy + 1])
    /\ pc_copy' = "IndexError"
    /\ UNCHANGED <<input_dir, output_dir, n_written, n_slices, i_copy>>
    /\ UNCHANGED othersCopy

NextCopy ==
    \/ CountSlices
    \/ CopySlice
    \/ CopySliceFileNotFound
    \/ CopySliceIndexError

\* The last channel of an image
LastChannel(image) == image[Len(image)]

\* C9 (as claimed): every sample slice image written is the last channel of
\* the original slice image of the same name, whatever its number of
\* channels, and when the cell has stopped every slice_* file of the input
\* directory has been copied exactly once.
C9_LastChannelOfEverySliceCopiedOnce ==
    /\ \A k \in DOMAIN output_dir :
          output_dir[k] = LastChannel(input_dir[k])
    /\ pc_copy \in {"done", "FileNotFoundError", "IndexError"} =>
          \A k \in ListSliceFiles(input_dir) :
              k \in DOMAIN output_dir /\ n_written[k] = 1

(***************************************************************************)
(* Notebook 5: downsample and copy the warped data and its coordinates     *)
(***************************************************************************)
\* Bounds of the warped-data model: the arrays have 1..MaxWarpedSlices
\* slices of 1..MaxHeight by 1..MaxWidth pixels, the coordinates array has
\* 1..MaxComponents components per pixel
MaxWarpedSlices == 2
MaxHeight == 4
MaxWidth == 4
MaxComponents == 3

\* The strides of the slicings [:, ::2, ::2, :] and [:, ::3, ::3, :]
PRINT_STRIDE == 2
SAVE_STRIDE == 3
FLOAT32_BYTES == 4

\* The original indices a[::step] keeps along an axis of length n
Strided(n, step) == [k \in 1..((n + step - 1) \div step) |-> (k - 1) * step]

\* a[:, ::step, ::step, :] and a[:, ::step, ::step], as the original indices
\* kept along each axis
Sample4(shape, step) ==
    <<Strided(shape[1], 1), Strided(shape[2], step), Strided(shape[3], step),
      Strided(shape[4], 1)>>
Sample3(shape, step) ==
    <<Strided(shape[1], 1), Strided(shape[2], step), Strided(shape[3], step)>>

\* a.shape of a sampled array
ShapeOf(sampled) == [a \in 1..Len(sampled) |-> Len(sampled[a])]

\* a.nbytes of a float32 array
RECURSIVE NBytes(_)
NBytes(shape) ==
    IF Len(shape) = 0 THEN FLOAT32_BYTES
    ELSE shape[1] * NBytes(Tail(shape))

\* round(nbytes / 1024 / 1024, 2), in hundredths, ties to even
RoundMB(nbytes) ==
    LET q == (nbytes * 100) \div (1024 * 1024)
        r == (nbytes * 100) % (1024 * 1024)
    IN  IF 2 * r > 1024 * 1024 \/ (2 * r = 1024 * 1024 /\ q % 2 = 1)
        THEN q + 1 ELSE q

InitWarp ==
    /\ \E s \in 1..MaxWarpedSlices, h \in 1..MaxHeight, w \in 1..MaxWidth,
          c \in 1..MaxComponents :
          /\ shape_coordinates = <<s, h, w, c>>
          /\ shape_warped = <<s, h, w>>
    /\ printed = <<>>
    /\ saved_coordinates = <<>>
    /\ saved_warped = <<>>
    /\ pc_warp = "coordinates"

IdleWarp ==
    /\ shape_coordinates = <<>>
    /\ shape_warped = <<>>
    /\ printed = <<>>
    /\ saved_coordinates = <<>>
    /\ saved_warped = <<>>
    /\ pc_warp = "idle"

\* The coordinates cell: three prints, then np.savez_compressed of
\* array_coordinates_warped_data[:, ::3, ::3, :]
SaveCoordinates ==
    /\ pc_warp = "coordinates"
    /\ printed' =
          <<RoundMB(NBytes(ShapeOf(Sample4(shape_coordinates, PRINT_STRIDE)))),
            shape_coordinates,
            ShapeOf(Sample4(shape_coordinates, PRINT_STRIDE))>>
    /\ saved_coordinates' = Sample4(shape_coordinates, SAVE_STRIDE)
    /\ pc_warp' = "warped"
    /\ UNCHANGED <<shape_coordinates, shape_warped, saved_warped>>
    /\ UNCHANGED othersWarp

\* The warped-data cell: np.savez_compressed of array_warped_data[:, ::3, ::3]
SaveWarped ==
    /\ pc_warp = "warped"
    /\ saved_warped' = Sample3(shape_warped, SAVE_STRIDE)
    /\ pc_warp' = "done"
    /\ UNCHANGED <<shape_coordinates, shape_warped, saved_coordinates, printed>>
    /\ UNCHANGED othersWarp

NextWarp ==
    \/ SaveCoordinates
    \/ SaveWarped

\* C10 (as claimed): the saved warped data and the saved coordinates keep
\* the same original pixels along the two in-plane axes, every slice and
\* every coordinate component, and a shape printed before saving is the
\* shape of the saved coordinates array.
C10_SameStrideAndPrintedShape ==
    pc_warp = "done" =>
        /\ saved_coordinates[2] = saved_warped[2]
        /\ saved_coordinates[3] = saved_warped[3]
        /\ saved_coordinates[1] = Strided(shape_coordinates[1], 1)
        /\ saved_warped[1] = Strided(shape_warped[1], 1)
        /\ saved_coordinates[4] = Strided(shape_coordinates[4], 1)
        /\ \/ printed[2] = ShapeOf(saved_coordinates)
           \/ printed[3] = ShapeOf(saved_coordinates)

(***************************************************************************)
(* Notebook 2: load the file names of a brain and correct for duplicates   *)
(***************************************************************************)
\* Bounds of the file-list model: slice numbers 1..MaxSliceNo, and at most
\* MaxMultiplicity acquisitions (directory entries) of one slice number
MaxSliceNo == 3
MaxMultiplicity == 3

\* remove_duplicates = True
remove_duplicates == TRUE

\* An entry [number, path] of l_t_names; "bis" is appended to it in place
TName(number, path) == [number |-> number, path |-> path, bis |-> FALSE]

\* sorted([[int(...), path_brain + name + "/" + name] for name in
\* os.listdir(path_brain)]): by slice number, then by path.  counts[n] is
\* the number of directory entries of slice number n, their paths 1..counts[n].
RECURSIVE SortedTNames(_, _)
SortedTNames(counts, n) ==
    IF n = 0 THEN <<>>
    ELSE SortedTNames(counts, n - 1)
         \o [k \in 1..counts[n] |-> TName(n, k)]

\* del l[p] for a Python position p; the caller checks 0 <= p < len(l)
PyDel(l, p) == [k \in 1..(Len(l) - 1) |-> IF k <= p THEN l[k] ELSE l[k + 1]]

\* t_names_2.append("bis"): the entry is shared by every list that holds it
MarkBis(l, entry) ==
    [k \in 1..Len(l) |-> IF l[k] = entry THEN [l[k] EXCEPT !.bis = TRUE] ELSE l[k]]

InitDup ==
    /\ \E counts \in [1..MaxSliceNo -> 0..MaxMultiplicity] :
          listing = SortedTNames(counts, MaxSliceNo)
    /\ l_names = listing
    /\ zipped = listing
    /\ idx_dup = 0
    /\ pc_dup = "loop"

IdleDup ==
    /\ listing = <<>>
    /\ l_names = <<>>
    /\ zipped = <<>>
    /\ idx_dup = 0
    /\ pc_dup = "idle"

\* The pair (t_names_1, t_names_2) of iteration idx: zip(l_t_names[:-1],
\* l_t_names[1:]) iterates over two copies of the list made before the loop
HasPair == idx_dup + 2 <= Len(zipped)
IsDuplicatePair == zipped[idx_dup + 2].number = zipped[idx_dup + 1].number

\* An iteration whose two entries have different slice numbers
SkipPair ==
    /\ pc_dup = "loop"
    /\ HasPair
    /\ ~IsDuplicatePair
    /\ idx_dup' = idx_dup + 1
    /\ UNCHANGED <<listing, l_names, zipped, pc_dup>>
    /\ UNCHANGED othersDup

\* An iteration on a duplicate: "bis" is appended to t_names_2 and
\* del l_t_names[idx + 1] acts on the list as it is now
RemoveDuplicate ==
    /\ pc_dup = "loop"
    /\ HasPair
    /\ IsDuplicatePair
    /\ remove_duplicates
    /\ idx_dup + 1 < Len(l_names)
    /\ LET t_names_2 == zipped[idx_dup + 2]
       IN  /\ zipped' = MarkBis(zipped, t_names_2)
           /\ l_names' = PyDel(MarkBis(l_names, t_names_2), idx_dup + 1)
    /\ idx_dup' = idx_dup + 1
    /\ UNCHANGED <<listing, pc_dup>>
    /\ UNCHANGED othersDup

\* del l_t_names[idx + 1] raises when the list has become too short
RemoveDuplicateIndexError ==
    /\ pc_dup = "loop"
    /\ HasPair
    /\ IsDuplicatePair
    /\ remove_duplicates
    /\ idx_dup + 1 >= Len(l_names)
    /\ LET t_names_2 == zipped[idx_dup + 2]
       IN  /\ zipped' = MarkBis(zipped, t_names_2)
           /\ l_names' = MarkBis(l_names, t_names_2)
    /\ pc_dup' = "IndexError"
    /\ UNCHANGED <<listing, idx_dup>>
    /\ UNCHANGED othersDup

\* The loop is exhausted
EndCorrectDuplicates ==
    /\ pc_dup = "loop"
    /\ ~HasPair
    /\ pc_dup' = "done"
    /\ UNCHANGED <<listing, l_names, zipped, idx_dup>>
    /\ UNCHANGED othersDup

NextDup ==
    \/ SkipPair
    \/ RemoveDuplicate
    \/ RemoveDuplicateIndexError
    \/ EndCorrectDuplicates

\* The first entry of each run of equal slice numbers of a sorted list
FirstOfEachRun(l) ==
    SelectSeq(l, LAMBDA e : \A f \in {l[k] : k \in 1..Len(l)} :
                                f.number = e.number => f.path >= e.path)

\* C11 (as claimed): the duplicate-correction loop ends without error and
\* leaves in the file list exactly the first entry of every run of equal
\* slice numbers of the directory listing.
C11_OneEntryPerSliceNumber ==
    /\ pc_dup # "IndexError"
    /\ pc_dup = "done" => l_names = FirstOfEachRun(listing)

(***************************************************************************)
(* Notebook 4: keep the spots present in both tables, sort, export         *)
(***************************************************************************)
\* Bound of the table model: the spots are 1..MaxSpotId
MaxSpotId == 3

\* The index of a table as read: spots in file order, none repeated
SpotIndexes ==
    {s \in SeqsOf(1..MaxSpotId, 0, MaxSpotId) :
        \A i, j \in 1..Len(s) : i # j => s[i] # s[j]}

\* table.loc[table.index.isin(other.index)], on the index
LocIsIn(index, other_index) ==
    SelectSeq(index, LAMBDA s : s \in ListSet(other_index))

\* table.sort_index(), on the index
SortIndex(index) == SortSeq(index, LAMBDA a, b : a < b)

InitBoth ==
    /\ meta_index \in SpotIndexes
    /\ exp_genes_index \in SpotIndexes
    /\ l_spots = <<>>
    /\ mol_spots = <<>>
    /\ array_exp_genes_spots = <<>>
    /\ pc_both = "read"

IdleBoth ==
    /\ meta_index = <<>>
    /\ exp_genes_index = <<>>
    /\ l_spots = <<>>
    /\ mol_spots = <<>>
    /\ array_exp_genes_spots = <<>>
    /\ pc_both = "idle"

\* table_meta = table_meta.loc[table_meta.index.isin(table_exp_genes.index)]
\* table_exp_genes =
\*     table_exp_genes.loc[table_exp_genes.index.isin(table_exp_genes.index)]
KeepSpotsInBoth ==
    /\ pc_both = "read"
    /\ meta_index' = LocIsIn(meta_index, exp_genes_index)
    /\ exp_genes_index' = LocIsIn(exp_genes_index, exp_genes_index)
    /\ pc_both' = "kept"
    /\ UNCHANGED <<l_spots, mol_spots, array_exp_genes_spots>>
    /\ UNCHANGED othersBoth

\* sort_index(inplace=True) of both tables; l_spots = list(table_meta.index)
SortTables ==
    /\ pc_both = "kept"
    /\ meta_index' = SortIndex(meta_index)
    /\ exp_genes_index' = SortIndex(exp_genes_index)
    /\ l_spots' = meta_index'
    /\ pc_both' = "sorted"
    /\ UNCHANGED <<mol_spots, array_exp_genes_spots>>
    /\ UNCHANGED othersBoth

\* x_mol, y_mol, z_mol = table_meta[...].to_numpy() and
\* array_exp_genes = np.exp(table_exp_genes.to_numpy()): the spot each entry
\* and each row comes from
ExportArrays ==
    /\ pc_both = "sorted"
    /\ mol_spots' = meta_index
    /\ array_exp_genes_spots' = exp_genes_index
    /\ pc_both' = "done"
    /\ UNCHANGED <<meta_index, exp_genes_index, l_spots>>
    /\ UNCHANGED othersBoth

NextBoth ==
    \/ KeepSpotsInBoth
    \/ SortTables
    \/ ExportArrays

\* C12 (as claimed): once the spots present in both tables are kept, the two
\* tables hold the same set of spots, and after sorting, row i of
\* table_exp_genes and of array_exp_genes and entry i of l_spots and of
\* x_mol, y_mol, z_mol are the same spot.
C12_SameSpotsInBothTables ==
    /\ pc_both \in {"kept", "sorted", "done"} =>
          ListSet(meta_index) = ListSet(exp_genes_index)
    /\ pc_both \in {"sorted", "done"} =>
          /\ exp_genes_index = l_spots
          /\ meta_index = l_spots
    /\ pc_both = "done" =>
          /\ array_exp_genes_spots = l_spots
          /\ mol_spots = l_spots

(***************************************************************************)
(* Notebook 4: filter_genes                                                *)
(***************************************************************************)
\* Bounds of the filter_genes model: NFilterGenes genes; the lipids are
\* NVariedCoefLipids lipids whose coefficients are drawn freely and
\* NBulkCoefLipids lipids that share one coefficient per gene
NFilterGenes == 2
NVariedCoefLipids == 2
NBulkCoefLipids == 14

\* filter_genes(..., threshold = 15)
FILTER_THRESHOLD == 15

CoefValues == {-1, 0, 2}
NCoefLipids == NVariedCoefLipids + NBulkCoefLipids

\* array_exp_genes (one column per gene) and l_genes, by Python position
GeneColumn(idx) == <<"expression of gene", idx>>
GeneName(idx) == <<"name of gene", idx>>

\* np.sum([1 for x in col if abs(x) > 0]) for col = array_coef.T[idx]
CountNonZero(coef, idx) ==
    Cardinality({l \in 1..NCoefLipids : Abs(coef[l][idx + 1]) > 0})

\* if np.sum([1 for x in col if abs(x) > 0]) > threshold
IsKept(coef, idx, threshold) == CountNonZero(coef, idx) > threshold

\* a[:, l_to_keep] and np.array(l)[l_to_keep]: fancy indexing by a list of
\* Python positions
TakeColumns(row, positions) == [k \in 1..Len(positions) |-> row[positions[k] + 1]]

InitGenes ==
    /\ \E varied \in [1..NVariedCoefLipids -> [1..NFilterGenes -> CoefValues]],
          bulk \in [1..NFilterGenes -> CoefValues] :
          array_coef = [l \in 1..NCoefLipids |->
                           IF l <= NVariedCoefLipids THEN varied[l] ELSE bulk]
    /\ l_to_keep = <<>>
    /\ idx_gene = 0
    /\ filtered = <<>>
    /\ pc_genes = "loop"

IdleGenes ==
    /\ array_coef = <<>>
    /\ l_to_keep = <<>>
    /\ idx_gene = 0
    /\ filtered = <<>>
    /\ pc_genes = "idle"

\* One iteration of "for idx, col in enumerate(array_coef.T)"
ExamineGene ==
    /\ pc_genes = "loop"
    /\ idx_gene < NFilterGenes
    /\ l_to_keep' = IF IsKept(array_coef, idx_gene, FILTER_THRESHOLD)
                    THEN Append(l_to_keep, idx_gene)
                    ELSE l_to_keep
    /\ idx_gene' = idx_gene + 1
    /\ UNCHANGED <<array_coef, filtered, pc_genes>>
    /\ UNCHANGED othersGenes

\* return array_exp_genes[:, l_to_keep], array_coef[:, l_to_keep],
\*        np.array(l_genes)[l_to_keep]
ReturnFilterGenes ==
    /\ pc_genes = "loop"
    /\ idx_gene = NFilterGenes
    /\ filtered' =
          [array_exp_genes |->
              TakeColumns([g \in 1..NFilterGenes |-> GeneColumn(g - 1)], l_to_keep),
           array_coef |->
              [l \in 1..NCoefLipids |-> TakeColumns(array_coef[l], l_to_keep)],
           array_name_genes |->
              TakeColumns([g \in 1..NFilterGenes |-> GeneName(g - 1)], l_to_keep)]
    /\ pc_genes' = "done"
    /\ UNCHANGED <<array_coef, l_to_keep, idx_gene>>
    /\ UNCHANGED othersGenes

NextGenes ==
    \/ ExamineGene
    \/ ReturnFilterGenes

\* The genes (Python positions, increasing) with a nonzero coefficient for
\* at least one lipid
ExplainingGenes(coef) ==
    SelectSeq([g \in 1..NFilterGenes |-> g - 1],
              LAMBDA idx : \E l \in 1..NCoefLipids : coef[l][idx + 1] # 0)

\* C13 (as claimed): filter_genes drops a gene if and only if its
\* coefficient is zero for every lipid, and the three returned arrays hold
\* the columns of the kept genes in their original order.
C13_DropsOnlyGenesWithAllZeroCoefficients ==
    pc_genes = "done" =>
        LET kept == ExplainingGenes(array_coef)
        IN  /\ filtered.array_exp_genes = [k \in 1..Len(kept) |-> GeneColumn(kept[k])]
            /\ filtered.array_name_genes = [k \in 1..Len(kept) |-> GeneName(kept[k])]
            /\ filtered.array_coef =
                  [l \in 1..NCoefLipids |->
                      [k \in 1..Len(kept) |-> array_coef[l][kept[k] + 1]]]

(***************************************************************************)
(* Notebook 4: compute_array_exp_lipids                                    *)
(***************************************************************************)
\* Bounds of the model: the lipids (name, structure, cation) of the brain
\* are 0..NLipidTriples-1 in the order of the three sorted loops, and the
\* brain has 1..MaxBrainSlices slices
NLipidTriples == 2
MaxBrainSlices == 2

\* The index values of the annotation rows that match a lipid in a slice:
\* none, one, or several (in the order of the annotation table)
AnnotationMatches == {<<>>, <<0>>, <<3>>, <<0, 3>>, <<3, 0>>}

\* The value kept for a slice: the last match when there are several, -1
\* when there is none, else the match
SelectedLipid(l_lipid_loc) ==
    LET kept == IF Len(l_lipid_loc) > 1
                THEN <<l_lipid_loc[Len(l_lipid_loc)]>>
                ELSE l_lipid_loc
        or_absent == IF Len(kept) = 0 THEN <<-1>> ELSE kept
    IN  or_absent[1]

\* if np.sum(l_selected_lipids) > -len(l_slices); the mutant tests the sum
\* against zero
IsPresentPositiveSum(selected, n_slices_brain) ==
    SumFn(selected, Len(selected)) > 0
IsPresent(selected, n_slices_brain) ==
    SumFn(selected, Len(selected)) > -n_slices_brain

\* lipid_string = name + " " + structure + " " + cation
LipidString(k) == <<"lipid", k>>

\* l_expr, read from the volume computed for lipid k
LipidExpr(k) == <<"expression from the volume of lipid", k>>

InitExpLip ==
    /\ method \in {"NN", "full"}
    /\ n_brain_slices \in 1..MaxBrainSlices
    /\ idx_triple = 0
    /\ l_selected_lipids = <<>>
    /\ annotated = <<>>
    /\ l_name_lipids = <<>>
    /\ ll_exp_lipids = <<>>
    /\ interpolated_array = -1
    /\ pc_explip = "select"

IdleExpLip ==
    /\ method = "idle"
    /\ n_brain_slices = 0
    /\ idx_triple = 0
    /\ l_selected_lipids = <<>>
    /\ annotated = <<>>
    /\ l_name_lipids = <<>>
    /\ ll_exp_lipids = <<>>
    /\ interpolated_array = -1
    /\ pc_explip = "idle"

AfterLipid == IF idx_triple + 1 = NLipidTriples THEN "done" ELSE "select"

\* The loop over l_slices for one lipid: the annotation rows of the lipid in
\* each slice are looked up and l_selected_lipids is filled.  annotated
\* records, per lipid, whether the table had a row for it in some slice.
SelectLipidInSlices ==
    /\ pc_explip = "select"
    /\ \E locs \in [1..n_brain_slices -> AnnotationMatches] :
          /\ l_selected_lipids' = [s \in 1..n_brain_slices |-> SelectedLipid(locs[s])]
          /\ annotated' = Append(annotated, \E s \in 1..n_brain_slices : locs[s] # <<>>)
    /\ pc_explip' = "test"
    /\ UNCHANGED <<method, n_brain_slices, idx_triple, l_name_lipids,
                   ll_exp_lipids, interpolated_array>>
    /\ UNCHANGED othersExpLip

\* The test passes: the name is appended, the volume computed and the
\* expression of every spot appended
IncludeLipid ==
    /\ pc_explip = "test"
    /\ IsPresent(l_selected_lipids, n_brain_slices)
    /\ l_name_lipids' = Append(l_name_lipids, LipidString(idx_triple))
    /\ interpolated_array' = IF method = "full" THEN idx_triple ELSE interpolated_array
    /\ ll_exp_lipids' = Append(ll_exp_lipids, LipidExpr(idx_triple))
    /\ idx_triple' = idx_triple + 1
    /\ pc_explip' = AfterLipid
    /\ UNCHANGED <<method, n_brain_slices, l_selected_lipids, annotated>>
    /\ UNCHANGED othersExpLip

\* The test passes and compute_3D_volume_figure raises (method "full"): the
\* exception is printed and the expression is read from the volume of an
\* earlier lipid
IncludeLipidAfterException ==
    /\ pc_explip = "test"
    /\ IsPresent(l_selected_lipids, n_brain_slices)
    /\ method = "full"
    /\ interpolated_array # -1
    /\ l_name_lipids' = Append(l_name_lipids, LipidString(idx_triple))
    /\ ll_exp_lipids' = Append(ll_exp_lipids, LipidExpr(interpolated_array))
    /\ idx_triple' = idx_triple + 1
    /\ pc_explip' = AfterLipid
    /\ UNCHANGED <<method, n_brain_slices, l_selected_lipids, annotated,
                   interpolated_array>>
    /\ UNCHANGED othersExpLip

\* The same when no volume has been computed yet: interpolated_array is
\* not defined and the function stops on a NameError
IncludeLipidNameError ==
    /\ pc_explip = "test"
    /\ IsPresent(l_selected_lipids, n_brain_slices)
    /\ method = "full"
    /\ interpolated_array = -1
    /\ l_name_lipids' = Append(l_name_lipids, LipidString(idx_triple))
    /\ pc_explip' = "NameError"
    /\ UNCHANGED <<method, n_brain_slices, idx_triple, l_selected_lipids,
                   annotated, ll_exp_lipids, interpolated_array>>
    /\ UNCHANGED othersExpLip

\* The test fails: nothing is appended
SkipLipid ==
    /\ pc_explip = "test"
    /\ ~IsPresent(l_selected_lipids, n_brain_slices)
    /\ idx_triple' = idx_triple + 1
    /\ pc_explip' = AfterLipid
    /\ UNCHANGED <<method, n_brain_slices, l_selected_lipids, annotated,
                   l_name_lipids, ll_exp_lipids, interpolated_array>>
    /\ UNCHANGED othersExpLip

NextExpLip ==
    \/ SelectLipidInSlices
    \/ IncludeLipid
    \/ IncludeLipidAfterException
    \/ IncludeLipidNameError
    \/ SkipLipid

\* C14: a lipid that has been examined is in l_name_lipids if and only if
\* the annotation table has a row for it in at least one slice, which is the
\* same as an entry of l_selected_lipids other than -1; and when the function
\* returns there is one row of expression per name.
C14_IncludedIffPresentInSomeSlice ==
    /\ \A k \in 1..idx_triple :
          (\E p \in 1..Len(l_name_lipids) : l_name_lipids[p] = LipidString(k - 1))
             <=> annotated[k]
    /\ pc_explip = "test" =>
          (IsPresent(l_selected_lipids, n_brain_slices)
             <=> \E s \in 1..Len(l_selected_lipids) : l_selected_lipids[s] # -1)
    /\ pc_explip = "test" =>
          (annotated[Len(annotated)]
             <=> \E s \in 1..Len(l_selected_lipids) : l_selected_lipids[s] # -1)
    /\ pc_explip = "done" => Len(ll_exp_lipids) = Len(l_name_lipids)

\* A lipid annotated at row 0 in one slice only has been included, and a
\* lipid without annotation has been left out
C14_Witness ==
    /\ pc_explip = "done"
    /\ n_brain_slices = 2
    /\ l_selected_lipids = <<-1, 0>>
    /\ annotated = <<FALSE, TRUE>>
    /\ l_name_lipids = <<LipidString(1)>>

(***************************************************************************)
(* Specifications: one per notebook step, the other steps idle             *)
(***************************************************************************)
StartAnnot ==
    InitAnnot /\ IdleNN /\ IdleFit /\ IdleShelf /\ IdleRegr /\ IdlePrev
    /\ IdleTiff /\ IdleCopy /\ IdleWarp /\ IdleDup /\ IdleBoth /\ IdleGenes
    /\ IdleExpLip
SpecAnnot == StartAnnot /\ [][NextAnnot]_vars

StartNN ==
    InitNN /\ IdleAnnot /\ IdleFit /\ IdleShelf /\ IdleRegr /\ IdlePrev
    /\ IdleTiff /\ IdleCopy /\ IdleWarp /\ IdleDup /\ IdleBoth /\ IdleGenes
    /\ IdleExpLip
SpecNN == StartNN /\ [][NextNN]_vars

StartFit ==
    InitFit /\ IdleAnnot /\ IdleNN /\ IdleShelf /\ IdleRegr /\ IdlePrev
    /\ IdleTiff /\ IdleCopy /\ IdleWarp /\ IdleDup /\ IdleBoth /\ IdleGenes
    /\ IdleExpLip
SpecFit == StartFit /\ [][NextFit]_vars

StartShelf ==
    InitShelf /\ IdleAnnot /\ IdleNN /\ IdleFit /\ IdleRegr /\ IdlePrev
    /\ IdleTiff /\ IdleCopy /\ IdleWarp /\ IdleDup /\ IdleBoth /\ IdleGenes
    /\ IdleExpLip
SpecShelf == StartShelf /\ [][NextShelf]_vars

StartRegr ==
    InitRegr /\ IdleAnnot /\ IdleNN /\ IdleFit /\ IdleShelf /\ IdlePrev
    /\ IdleTiff /\ IdleCopy /\ IdleWarp /\ IdleDup /\ IdleBoth /\ IdleGenes
    /\ IdleExpLip
SpecRegr == StartRegr /\ [][NextRegr]_vars

StartPrev ==
    InitPrev /\ IdleAnnot /\ IdleNN /\ IdleFit /\ IdleShelf /\ IdleRegr
    /\ IdleTiff /\ IdleCopy /\ IdleWarp /\ IdleDup /\ IdleBoth /\ IdleGenes
    /\ IdleExpLip
SpecPrev == StartPrev /\ [][NextPrev]_vars

StartTiff ==
    InitTiff /\ IdleAnnot /\ IdleNN /\ IdleFit /\ IdleShelf /\ IdleRegr
    /\ IdlePrev /\ IdleCopy /\ IdleWarp /\ IdleDup /\ IdleBoth /\ IdleGenes
    /\ IdleExpLip
SpecTiff == StartTiff /\ [][NextTiff]_vars

StartCopy ==
    InitCopy /\ IdleAnnot /\ IdleNN /\ IdleFit /\ IdleShelf /\ IdleRegr
    /\ IdlePrev /\ IdleTiff /\ IdleWarp /\ IdleDup /\ IdleBoth /\ IdleGenes
    /\ IdleExpLip
SpecCopy == StartCopy /\ [][NextCopy]_vars

StartWarp ==
    InitWarp /\ IdleAnnot /\ IdleNN /\ IdleFit /\ IdleShelf /\ IdleRegr
    /\ IdlePrev /\ IdleTiff /\ IdleCopy /\ IdleDup /\ IdleBoth /\ IdleGenes
    /\ IdleExpLip
SpecWarp == StartWarp /\ [][NextWarp]_vars

StartDup ==
    InitDup /\ IdleAnnot /\ IdleNN /\ IdleFit /\ IdleShelf /\ IdleRegr
    /\ IdlePrev /\ IdleTiff /\ IdleCopy /\ IdleWarp /\ IdleBoth /\ IdleGenes
    /\ IdleExpLip
SpecDup == StartDup /\ [][NextDup]_vars

StartBoth ==
    InitBoth /\ IdleAnnot /\ IdleNN /\ IdleFit /\ IdleShelf /\ IdleRegr
    /\ IdlePrev /\ IdleTiff /\ IdleCopy /\ IdleWarp /\ IdleDup /\ IdleGenes
    /\ IdleExpLip
SpecBoth == StartBoth /\ [][NextBoth]_vars

StartGenes ==
    InitGenes /\ IdleAnnot /\ IdleNN /\ IdleFit /\ IdleShelf /\ IdleRegr
    /\ IdlePrev /\ IdleTiff /\ IdleCopy /\ IdleWarp /\ IdleDup /\ IdleBoth
    /\ IdleExpLip
SpecGenes == StartGenes /\ [][NextGenes]_vars

StartExpLip ==
    InitExpLip /\ IdleAnnot /\ IdleNN /\ IdleFit /\ IdleShelf /\ IdleRegr
    /\ IdlePrev /\ IdleTiff /\ IdleCopy /\ IdleWarp /\ IdleDup /\ IdleBoth
    /\ IdleGenes
SpecExpLip == StartExpLip /\ [][NextExpLip]_vars

=============================================================================
